---- MODULE Spec2Model ----
\* Model of the Confluence importer (the variant with resume state:
\* src/unnamed/part_000): the run orchestrator importHtmlFiles, the page and
\* attachment reconciliation (createOrUpdatePage, uploadAttachment), the retry
\* wrapper safeAxiosCall and the resume state (loadState / saveState), run
\* against a remote store that keeps titles unique within the space and checks
\* the version number of every update.
EXTENDS Integers, Sequences, FiniteSets, TLC

\* ---------------------------------------------------------------- bounds
MaxRuns == 2        \* runs of the program in one behaviour
MaxFailures == 3    \* transient failures (429 or other) the network injects
MaxExternal == 1    \* writes by an external editor of the space
MaxLimit == 2       \* largest N given as --limit=N
MaxInvocations == 4 \* invocations a wrapped call is prepared to answer
MaxAttrs == 2       \* attributes of an element given to cleanHtml
MaxKids == 2        \* children of the wrapping element given to cleanHtml
MaxLinks == 3       \* links and link targets of a document given to processImagesAndLinks

\* ------------------------------------------------------------ constants
retries == 3        \* safeAxiosCall(axiosCall, retries = 3)
Infinity == 1000    \* `|| Infinity` of LIMIT: larger than any index

\* ------------------------------------------------- the local file tree
\* HTML_FOLDER_PATH holds index.html, three documents and their assets.
FilesOnDisk ==
  {"index.html", "a.html", "b.html", "c.html",
   "images/a.png", "icons/a.png", "docs/r.pdf"}

\* The <a> elements of index.html, in document order.
IndexLinks ==
  << [href |-> "a.html", text |-> "A"],
     [href |-> "b.html", text |-> ""],
     [href |-> "gone.html", text |-> "Gone"],
     [href |-> "c.html", text |-> "Index Page"] >>

Hrefs == {"a.html", "b.html", "c.html", "gone.html",
          "images/a.png", "icons/a.png", "docs/r.pdf", "missing.png", "#top"}

\* path.basename(p) and path.basename(p, '.html')
basename(p) ==
  CASE p = "images/a.png" -> "a.png"
    [] p = "icons/a.png" -> "a.png"
    [] p = "docs/r.pdf" -> "r.pdf"
    [] OTHER -> p

stem(p) ==
  CASE p = "a.html" -> "a"
    [] p = "b.html" -> "b"
    [] p = "c.html" -> "c"
    [] p = "gone.html" -> "gone"
    [] p = "index.html" -> "index"
    [] OTHER -> p

\* path.extname(p).toLowerCase()
extname(p) ==
  CASE p \in {"a.html", "b.html", "c.html", "gone.html", "index.html"} -> ".html"
    [] p \in {"images/a.png", "icons/a.png", "missing.png"} -> ".png"
    [] p = "docs/r.pdf" -> ".pdf"
    [] OTHER -> ""

downloadableExtensions == {".pdf", ".docx", ".xlsx", ".zip", ".pptx", ".txt", ".csv"}

\* The <img src> and <a href> elements of each document, in document order.
Imgs(file) ==
  CASE file = "a.html" -> << "images/a.png", "icons/a.png" >>
    [] file = "b.html" -> << "missing.png" >>
    [] OTHER -> << >>

Anchors(file) ==
  CASE file = "index.html" -> [n \in 1..Len(IndexLinks) |-> IndexLinks[n].href]
    [] file = "a.html" -> << "b.html", "docs/r.pdf" >>
    [] file = "b.html" -> << "#top" >>
    [] OTHER -> << >>

\* ------------------------------------------------------------- helpers
Min(a, b) == IF a < b THEN a ELSE b
Max(a, b) == IF a > b THEN a ELSE b
Range(s) == { s[n] : n \in 1..Len(s) }

\* Array.prototype.slice(0, end)
Slice(s, end) ==
  SubSeq(s, 1, IF end < 0 THEN Max(Len(s) + end, 0) ELSE Min(end, Len(s)))

RECURSIVE SelectDocs(_, _)
\* the entries of a listing whose file is not in the given set, in order
SelectDocs(s, skip) ==
  IF s = << >> THEN << >>
  ELSE IF Head(s).file \in skip THEN SelectDocs(Tail(s), skip)
       ELSE << Head(s) >> \o SelectDocs(Tail(s), skip)

\* --------------------------------------------------------------- index
RECURSIVE IndexEntries(_)
\* the $('a').each callback of getHtmlFilesFromIndex over the index links
IndexEntries(links) ==
  IF links = << >> THEN << >>
  ELSE LET l == Head(links)
           rest == IndexEntries(Tail(links))
       IN IF l.href # "" /\ extname(l.href) = ".html" /\ l.href \in FilesOnDisk
          THEN << [file |-> l.href,
                   title |-> IF l.text # "" THEN l.text ELSE stem(l.href)] >> \o rest
          ELSE rest

getHtmlFilesFromIndex ==
  IF "index.html" \notin FilesOnDisk THEN << >>
  ELSE << [file |-> "index.html", title |-> "Index Page"] >> \o IndexEntries(IndexLinks)

\* getPageMap(): href -> title for every .html link of the index ("" = no entry)
getPageMap ==
  [h \in Hrefs |->
     IF \E n \in 1..Len(IndexLinks) : IndexLinks[n].href = h /\ extname(h) = ".html"
     THEN LET n == CHOOSE m \in 1..Len(IndexLinks) :
                     /\ IndexLinks[m].href = h
                     /\ \A j \in (m+1)..Len(IndexLinks) : IndexLinks[j].href # h
          IN IF IndexLinks[n].text # "" THEN IndexLinks[n].text ELSE stem(h)
     ELSE ""]

Titles == { e.title : e \in Range(getHtmlFilesFromIndex) }

\* ------------------------------------------------------ CLI and values
Modes == {"normal", "dry-run", "dry-run-local"}

\* the --limit argument: absent, or --limit=N
LimitArgs == {[given |-> FALSE, n |-> 0]} \cup {[given |-> TRUE, n |-> n] : n \in 0..MaxLimit}

\* parseInt(...) || Infinity
ParseLimit(arg) == IF arg.given /\ arg.n # 0 THEN arg.n ELSE Infinity

\* page identities: null, a store-assigned id, or a synthetic dry-run id
Null == [kind |-> "null", num |-> 0, title |-> ""]
RealId(n) == [kind |-> "real", num |-> n, title |-> ""]
DryId(t) == [kind |-> "dry", num |-> 0, title |-> t]
DryLocalId(t) == [kind |-> "dry-local", num |-> 0, title |-> t]
startsWithDry(id) == id.kind \in {"dry", "dry-local"}

\* what uploadAttachment returns: null, https://dummy.url/<name>,
\* ./assets/<name>, or the download link of the store
NoUrl == [kind |-> "none", name |-> ""]
NullUrl == [kind |-> "null", name |-> ""]
DummyUrl(name) == [kind |-> "dummy", name |-> name]
LocalPath(name) == [kind |-> "local", name |-> name]
RemoteUrl(name) == [kind |-> "remote", name |-> name]

\* page bodies: the document they come from and the references rewritten to macros
NoBody == [doc |-> "", macros |-> {}]
Body(file, m) == [doc |-> file, macros |-> m]

\* the remote store: pages by title, attachments by (page id, filename)
NoPage == [id |-> 0, version |-> 0, body |-> NoBody]
NoAtt == [id |-> 0, content |-> ""]
AttKeys == (1..Cardinality(Titles)) \X { basename(h) : h \in Hrefs }

\* transfer-state.json: absent, not JSON, JSON without a transferred list, or well formed
StateFile(kind, list) == [kind |-> kind, transferred |-> list]
InitialStateFiles ==
  { StateFile("absent", << >>), StateFile("garbage", << >>), StateFile("nolist", << >>),
    StateFile("ok", << "index.html" >>), StateFile("ok", << "b.html" >>) }

VARIABLES
  pages,          \* remote: title -> page record (NoPage when absent)
  attachments,    \* remote: (page id, filename) -> attachment record
  stateFile,      \* transfer-state.json on disk
  runs,           \* number of runs started
  failures,       \* transient failures injected so far
  extWrites,      \* external writes so far
  mode,           \* DRY_RUN / DRY_RUN_LOCAL of the current run
  IGNORE_STATE,   \* --all
  LIMIT,          \* --limit
  limitArg,       \* the --limit=N argument of the command line
  state,          \* the object returned by loadState, as mutated by the run
  loaded,         \* the transferred list as loaded at the start of the run
  allFilesData,   \* getHtmlFilesFromIndex().slice(0, LIMIT)
  idx,            \* position of the for loop in allFilesData
  processed,      \* documents that passed the skip test (counter = its length)
  failed,         \* documents of the run given up: no page id, or an exception caught
  pc,             \* where the process is
  phase,          \* "first" or "final" createOrUpdatePage call of the document
  i,              \* loop variable of safeAxiosCall
  last,           \* how the latest safeAxiosCall ended
  searchOk,       \* the search of the current createOrUpdatePage call got a response
  existingPage,   \* result of getPageByTitle
  staleAt,        \* attempts of the current update the store rejected as stale
  pageId,         \* result of the first createOrUpdatePage call
  ret,            \* result of the latest createOrUpdatePage call
  created,        \* the first call of the current document created its page
  v1,             \* version of the page when the first call returned
  k,              \* position in the document's references
  existingAttachment, \* result of getExistingAttachment
  macros,         \* references of the document replaced by a macro
  upl,            \* upload requests the store accepted for the document
  uploadedUrl,            \* what the latest uploadAttachment call returned
  clean,          \* no attempt of the document was failed by the network, no edit raced it
  logs            \* the run's log, entries <<page, action, detail>>

\* the functions checked on their own: their inputs and results
VARIABLES
  axiosCall,      \* what the wrapped call does at its 1st, 2nd, ... invocation
  calls,          \* invocations of the wrapped call so far
  attempt,        \* the loop variable i of safeAxiosCall
  outcome,        \* "running", or how safeAxiosCall ended
  returned,       \* the invocation whose response safeAxiosCall returned (0: none)
  waits           \* the delay(waitTime) of each pass of the loop, in ms (0: none)

VARIABLES
  html,           \* the markup given to cleanHtml
  variant,        \* which cleanHtml: part_000 (drops id) or part_002 (keeps id)
  cleaned,        \* cleanHtml(html)
  recleaned,      \* cleanHtml(cleanHtml(html))
  extracted,      \* { frontMatter, content } inside cleanHtml (part_002)
  hstage          \* "input", "cleaned", "recleaned", "thrown"

VARIABLES
  linkDoc,            \* the elements of the markup given to processImagesAndLinks
  linksVariant,   \* which processImagesAndLinks: part_000 or part_002
  pageMap,        \* href -> title ("" = no entry)
  out,            \* what each element of linkDoc has become
  imagesToUpload,
  filesToUpload,
  uploads,        \* the uploadAttachment calls of part_000: file path and file name
  pos,            \* position in the img and a elements being looped over
  lstage          \* "running", "returned", "thrown"

VARIABLES
  copy,           \* which copy of the program is started
  processEnv,     \* the settings of .env other than the token: set or not
  API_TOKEN,      \* the token of each of two starts that differ in nothing else
  console,        \* what module initialisation writes to the console in each start
  started         \* the starts whose module initialisation is over

retryVars == << axiosCall, calls, attempt, outcome, returned, waits >>
linkVars == << linkDoc, linksVariant, pageMap, out, imagesToUpload, filesToUpload,
              uploads, pos, lstage >>
htmlVars == << html, variant, cleaned, recleaned, extracted, hstage >>
configVars == << copy, processEnv, API_TOKEN, console, started >>
pureVars == << retryVars, htmlVars, linkVars, configVars >>

progVars == << pages, attachments, stateFile, runs, failures, extWrites, mode,
           IGNORE_STATE, LIMIT, limitArg, state, loaded, allFilesData, idx, processed, failed,
           pc, phase, i, last, searchOk, existingPage, staleAt, pageId, ret, created,
           v1, k, existingAttachment, macros, upl, uploadedUrl, clean, logs >>
vars == << progVars, pureVars >>

store == << pages, attachments >>
env == << runs, failures, extWrites >>
flags == << mode, IGNORE_STATE, LIMIT, limitArg >>
runVars == << state, loaded, allFilesData, idx, processed, failed >>
callVars == << i, last, searchOk, existingPage, staleAt >>
docVars == << phase, pageId, ret, created, v1, k, existingAttachment, macros, upl,
             uploadedUrl >>

RetryIdle ==
  /\ axiosCall = << >> /\ calls = 0 /\ attempt = 0 /\ outcome = "none" /\ returned = 0
  /\ waits = << >>

\* the program before its first run
ProgramInit ==
  /\ pages = [t \in Titles |-> NoPage]
  /\ attachments = [a \in AttKeys |-> NoAtt]
  /\ stateFile \in InitialStateFiles
  /\ runs = 0 /\ failures = 0 /\ extWrites = 0
  /\ mode = "normal" /\ IGNORE_STATE = FALSE /\ LIMIT = Infinity
  /\ limitArg = [given |-> FALSE, n |-> 0]
  /\ state = [hasList |-> TRUE, transferred |-> << >>]
  /\ loaded = << >>
  /\ allFilesData = << >>
  /\ idx = 0
  /\ processed = << >>
  /\ failed = << >>
  /\ pc = "idle"
  /\ phase = "none"
  /\ i = 0
  /\ last = "none"
  /\ searchOk = FALSE
  /\ existingPage = NoPage
  /\ staleAt = {}
  /\ pageId = Null
  /\ ret = Null
  /\ created = FALSE
  /\ v1 = 0
  /\ k = 0
  /\ existingAttachment = NoAtt
  /\ macros = {}
  /\ upl = << >>
  /\ uploadedUrl = NoUrl
  /\ clean = TRUE
  /\ logs = << >>

NoFrontMatter == [kind |-> "null", src |-> << >>]
NotExtracted == [thrown |-> FALSE, frontMatter |-> NoFrontMatter, content |-> << >>]

HtmlIdle ==
  /\ html = << >> /\ variant = "part_000" /\ cleaned = << >> /\ recleaned = << >>
  /\ extracted = NotExtracted
  /\ hstage = "none"

ConfigIdle ==
  /\ copy = "none" /\ processEnv = << >> /\ API_TOKEN = << >>
  /\ console = << >> /\ started = {}

LinksIdle ==
  /\ linkDoc = << >> /\ linksVariant = "part_000"
  /\ pageMap = << >>
  /\ out = << >> /\ imagesToUpload = << >> /\ filesToUpload = << >>
  /\ uploads = << >>
  /\ pos = 0 /\ lstage = "none"

Init == ProgramInit /\ ConfigIdle /\ RetryIdle /\ HtmlIdle /\ LinksIdle

\* ------------------------------------------------------------- logging
logEventNone(page, action, detail, n) == logs

\* logs.push({ page, action, detail, pageUrl })
logEvent(page, action, detail, n) ==
  Append(logs, [page |-> page, action |-> action, detail |-> detail, n |-> n])

\* ------------------------------------------------------- current document
file == allFilesData[idx].file
title == allFilesData[idx].title
Refs(f) == Imgs(f) \o Anchors(f)
isImg(f, n) == n <= Len(Imgs(f))

Stopped == {"idle", "done", "exited", "killed"}

DRY_RUN_LOCAL_Off == FALSE

\* const DRY_RUN = args.includes('--dry-run'), DRY_RUN_LOCAL likewise
DRY_RUN == mode = "dry-run"
DRY_RUN_LOCAL == mode = "dry-run-local"

\* ------------------------------------------------------ resume state
\* loadState(): the object the run works on
loadState(all, f) ==
  IF ~all /\ f.kind # "absent"
  THEN IF f.kind = "garbage" THEN [hasList |-> TRUE, transferred |-> << >>]
       ELSE IF f.kind = "nolist" THEN [hasList |-> FALSE, transferred |-> << >>]
       ELSE [hasList |-> TRUE, transferred |-> f.transferred]
  ELSE [hasList |-> TRUE, transferred |-> << >>]

saveStateDeferred(st) == stateFile

\* saveState(state): the file after fs.writeFileSync(JSON.stringify(state))
saveState(st) == StateFile("ok", st.transferred)

\* ------------------------------------------------------ retry wrapper
safeAxiosCallEndless(n, o) == IF o = "ok" THEN "return" ELSE "retry"

safeAxiosCallNoRetry(n, o) ==
  IF o = "ok" THEN "return"
  ELSE IF o = "rate"
       THEN IF n + 1 < retries THEN "retry" ELSE "undefined"
       ELSE "throw"

\* One pass of the for loop of safeAxiosCall: attempt number n ended with
\* outcome o ("ok", "rate" for a 429, "err" for any other failure).
safeAxiosCall(n, o) ==
  IF o = "ok" THEN "return"
  ELSE IF o = "rate"
       THEN IF n + 1 < retries THEN "retry" ELSE "undefined"
       ELSE IF n = retries - 1 THEN "throw" ELSE "retry"

\* what the network does with an attempt: deliver it to the store, or fail it
EnvOutcomes == {"deliver"} \cup (IF failures < MaxFailures THEN {"rate", "err"} ELSE {})

listFilesNoLimit(lim) == getHtmlFilesFromIndex

\* getHtmlFilesFromIndex().slice(0, LIMIT)
listFiles(lim) == Slice(getHtmlFilesFromIndex, lim)

\* --------------------------------------------------------- operations
\* node main.js [--dry-run|--dry-run-local] [--all] [--limit=N]: module
\* initialisation and importHtmlFiles up to the for loop
StartRun ==
  /\ pc \in Stopped
  /\ runs < MaxRuns
  /\ \E m \in Modes, all \in BOOLEAN, arg \in LimitArgs :
       LET lim == ParseLimit(arg)
           st == loadState(all, stateFile)
           list == listFiles(lim)
       IN /\ mode' = m
          /\ IGNORE_STATE' = all
          /\ LIMIT' = lim
          /\ limitArg' = arg
          /\ state' = st
          /\ loaded' = st.transferred
          /\ allFilesData' = list
          /\ idx' = 1
          /\ pc' = IF Len(list) = 0 THEN "exited" ELSE "loop"
  /\ runs' = runs + 1
  /\ processed' = << >>
  /\ failed' = << >>
  /\ logs' = << >>
  /\ phase' = "none" /\ pageId' = Null /\ ret' = Null /\ created' = FALSE /\ v1' = 0
  /\ k' = 0 /\ existingAttachment' = NoAtt /\ macros' = {} /\ upl' = << >>
  /\ uploadedUrl' = NoUrl
  /\ i' = 0 /\ last' = "none" /\ searchOk' = FALSE /\ existingPage' = NoPage
  /\ staleAt' = {}
  /\ clean' = TRUE
  /\ UNCHANGED << store, stateFile, failures, extWrites >>
  /\ UNCHANGED pureVars

\* the for loop is over: CSV log and summary
FinishRun ==
  /\ pc = "loop"
  /\ idx > Len(allFilesData)
  /\ pc' = "done"
  /\ UNCHANGED << store, stateFile, env, flags, runVars, callVars, docVars, logs, clean >>
  /\ UNCHANGED pureVars

\* state.transferred.includes(file) on an object without a transferred list:
\* a TypeError outside the try block rejects importHtmlFiles, process.exit(1)
StateTypeError ==
  /\ pc = "loop"
  /\ idx <= Len(allFilesData)
  /\ ~state.hasList
  /\ pc' = "exited"
  /\ UNCHANGED << store, stateFile, env, flags, runVars, callVars, docVars, logs, clean >>
  /\ UNCHANGED pureVars

isTransferredNever == FALSE

\* state.transferred.includes(file)
isTransferred == file \in Range(state.transferred)

\* if (state.transferred.includes(file)) continue
SkipDocument ==
  /\ pc = "loop"
  /\ idx <= Len(allFilesData)
  /\ state.hasList
  /\ isTransferred
  /\ idx' = idx + 1
  /\ UNCHANGED << store, stateFile, env, flags, state, loaded, allFilesData,
                  processed, failed, pc, callVars, docVars, logs, clean >>
  /\ UNCHANGED pureVars

\* counter++, read and clean the file, first createOrUpdatePage call
BeginDocument ==
  /\ pc = "loop"
  /\ idx <= Len(allFilesData)
  /\ state.hasList
  /\ ~isTransferred
  /\ processed' = Append(processed, file)
  /\ phase' = "first"
  /\ pc' = "cou"
  /\ pageId' = Null /\ ret' = Null /\ created' = FALSE /\ v1' = 0
  /\ k' = 0 /\ existingAttachment' = NoAtt /\ macros' = {} /\ upl' = << >>
  /\ uploadedUrl' = NoUrl
  /\ clean' = TRUE
  /\ UNCHANGED << store, stateFile, env, flags, state, loaded, allFilesData, idx,
                  failed, callVars, logs >>
  /\ UNCHANGED pureVars

\* fs.readFileSync throws (the file became unreadable after the index was
\* listed): the catch block logs a fatal error, the loop goes on to its pause
ReadFails ==
  /\ pc = "loop"
  /\ idx <= Len(allFilesData)
  /\ state.hasList
  /\ ~isTransferred
  /\ failures < MaxFailures
  /\ failures' = failures + 1
  /\ processed' = Append(processed, file)
  /\ failed' = Append(failed, file)
  /\ logs' = logEvent(title, "Fatal error", "", 0)
  /\ phase' = "none"
  /\ pc' = "caught"
  /\ pageId' = Null /\ ret' = Null /\ created' = FALSE /\ v1' = 0
  /\ k' = 0 /\ existingAttachment' = NoAtt /\ macros' = {} /\ upl' = << >>
  /\ uploadedUrl' = NoUrl
  /\ clean' = FALSE
  /\ UNCHANGED << store, stateFile, runs, extWrites, flags, state, loaded,
                  allFilesData, idx, callVars >>
  /\ UNCHANGED pureVars

\* the body createOrUpdatePage sends: clean_html, then confluence_html
htmlContent == IF phase = "first" THEN Body(file, {}) ELSE Body(file, macros)

\* createOrUpdatePage up to its first remote call
EnterCreateOrUpdatePage ==
  /\ pc = "cou"
  /\ IF DRY_RUN
     THEN /\ logs' = logEvent(title, "Simulated (dry-run)", "", 0)
          /\ ret' = DryId(title)
          /\ pc' = "couRet"
     ELSE IF DRY_RUN_LOCAL
     THEN /\ logs' = logEvent(title, "Dry-run local", "Saved", 0)
          /\ ret' = DryLocalId(title)
          /\ pc' = "couRet"
     ELSE /\ pc' = "search"
          /\ UNCHANGED << logs, ret >>
  /\ i' = 0 /\ searchOk' = FALSE /\ existingPage' = NoPage /\ staleAt' = {}
  /\ UNCHANGED << store, stateFile, env, flags, runVars, last, phase, pageId,
                  created, v1, k, existingAttachment, macros, upl, uploadedUrl, clean >>
  /\ UNCHANGED pureVars

\* getPageByTitle: an attempt of the search GET comes back
SearchResponds ==
  /\ pc = "search"
  /\ \E e \in EnvOutcomes :
       LET o == IF e = "deliver" THEN "ok" ELSE e
           step == safeAxiosCall(i, o)
       IN /\ failures' = IF e = "deliver" THEN failures ELSE failures + 1
          /\ clean' = (clean /\ e = "deliver")
          /\ IF step = "retry"
             THEN /\ i' = i + 1
                  /\ UNCHANGED << pc, last, searchOk, existingPage >>
             ELSE /\ i' = 0
                  /\ last' = step
                  /\ searchOk' = (step = "return")
                  \* response.data.results[0] || null; null after a failure
                  /\ existingPage' = IF step = "return" THEN pages[title] ELSE NoPage
                  /\ pc' = IF step = "return" /\ pages[title] # NoPage
                           THEN "update" ELSE "create"
  /\ UNCHANGED << store, stateFile, runs, extWrites, flags, runVars, staleAt,
                  docVars, logs >>
  /\ UNCHANGED pureVars

newVersionStale == existingPage.version

\* const newVersion = existingPage.version.number + 1
newVersion == existingPage.version + 1

\* the store accepts an update only for the version after the current one
StoreAcceptsUpdate(t, id, version) ==
  /\ pages[t].id = id
  /\ version = pages[t].version + 1

\* createOrUpdatePage, existing page: an attempt of the PUT comes back
UpdateResponds ==
  /\ pc = "update"
  /\ \E e \in EnvOutcomes :
       LET accepted == StoreAcceptsUpdate(title, existingPage.id, newVersion)
           o == IF e = "deliver" THEN (IF accepted THEN "ok" ELSE "err") ELSE e
           step == safeAxiosCall(i, o)
       IN /\ failures' = IF e = "deliver" THEN failures ELSE failures + 1
          /\ clean' = (clean /\ e = "deliver")
          /\ staleAt' = IF e = "deliver" /\ ~accepted THEN staleAt \cup {i} ELSE staleAt
          /\ pages' = IF step = "return"
                      THEN [pages EXCEPT ![title] =
                              [id |-> existingPage.id, version |-> newVersion,
                               body |-> htmlContent]]
                      ELSE pages
          /\ IF step = "retry"
             THEN /\ i' = i + 1
                  /\ UNCHANGED << pc, last, ret, logs >>
             ELSE /\ UNCHANGED i
                  /\ last' = step
                  /\ pc' = "couRet"
                  /\ IF step = "throw"
                     THEN /\ logs' = logEvent(title, "Error", "", 0)
                          /\ ret' = Null
                     ELSE /\ logs' = logEvent(title, "Updated", "Version", newVersion)
                          /\ ret' = RealId(existingPage.id)
  /\ UNCHANGED << attachments, stateFile, runs, extWrites, flags, runVars, searchOk,
                  existingPage, phase, pageId, created, v1, k, existingAttachment,
                  macros, upl, uploadedUrl >>
  /\ UNCHANGED pureVars

\* the store refuses a second page with a title the space already has
StoreAcceptsCreate(t) == pages[t] = NoPage
NextPageId == Cardinality({ t \in Titles : pages[t] # NoPage }) + 1

\* createOrUpdatePage, no page found: an attempt of the POST comes back
CreateResponds ==
  /\ pc = "create"
  /\ \E e \in EnvOutcomes :
       LET accepted == StoreAcceptsCreate(title)
           o == IF e = "deliver" THEN (IF accepted THEN "ok" ELSE "err") ELSE e
           step == safeAxiosCall(i, o)
       IN /\ failures' = IF e = "deliver" THEN failures ELSE failures + 1
          /\ clean' = (clean /\ e = "deliver")
          /\ pages' = IF step = "return"
                      THEN [pages EXCEPT ![title] =
                              [id |-> NextPageId, version |-> 1, body |-> htmlContent]]
                      ELSE pages
          /\ IF step = "retry"
             THEN /\ i' = i + 1
                  /\ UNCHANGED << pc, last, ret, created, logs >>
             ELSE /\ UNCHANGED i
                  /\ last' = step
                  /\ pc' = "couRet"
                  /\ IF step = "return"
                     THEN /\ logs' = logEvent(title, "Created", "ID", NextPageId)
                          /\ ret' = RealId(NextPageId)
                          /\ created' = IF phase = "first" THEN TRUE ELSE created
                     \* a thrown error, or response.data of undefined: the catch block
                     ELSE /\ logs' = logEvent(title, "Error", "", 0)
                          /\ ret' = Null
                          /\ UNCHANGED created
  /\ UNCHANGED << attachments, stateFile, runs, extWrites, flags, runVars, searchOk,
                  existingPage, staleAt, phase, pageId, v1, k, existingAttachment,
                  macros, upl, uploadedUrl >>
  /\ UNCHANGED pureVars

\* importHtmlFiles after the first createOrUpdatePage call: if (!pageId) continue
AfterFirstCall ==
  /\ pc = "couRet"
  /\ phase = "first"
  /\ pageId' = ret
  /\ IF ret = Null
     THEN \* continue: next document, without the pause at the end of the body
          /\ idx' = idx + 1
          /\ pc' = "loop"
          /\ failed' = Append(failed, file)
          /\ UNCHANGED << k, v1 >>
     ELSE /\ k' = 1
          /\ pc' = "refs"
          /\ v1' = pages[title].version
          /\ UNCHANGED << idx, failed >>
  /\ UNCHANGED << store, stateFile, env, flags, state, loaded, allFilesData,
                  processed, callVars, phase, ret, created, existingAttachment,
                  macros, upl, uploadedUrl, logs, clean >>
  /\ UNCHANGED pureVars

\* ---------------------------------------------- processImagesAndLinks
href == Refs(file)[k]
fileName == basename(href)

\* the rest of the loop body once uploadAttachment has returned (a URL or null)
MacrosAfterUpload(url) == IF isImg(file, k) \/ url THEN macros \cup {k} ELSE macros

LogsAfterUpload(url) ==
  IF isImg(file, k)
  THEN Append(IF url THEN logEvent(title, "Image uploaded", fileName, 0) ELSE logs,
              [page |-> title, action |-> "Image tag modified", detail |-> fileName,
               n |-> 0])
  ELSE IF url THEN logEvent(title, "File uploaded", href, 0) ELSE logs

\* one element of the image loop or of the link loop, up to its upload
ProcessRef ==
  /\ pc = "refs"
  /\ k <= Len(Refs(file))
  /\ LET upload == \* the element has a local file to send: uploadAttachment
           IF DRY_RUN \/ DRY_RUN_LOCAL
           THEN /\ uploadedUrl' = IF DRY_RUN THEN DummyUrl(fileName) ELSE LocalPath(fileName)
                /\ macros' = MacrosAfterUpload(TRUE)
                /\ logs' = LogsAfterUpload(TRUE)
                /\ k' = k + 1
                /\ UNCHANGED pc
           ELSE IF pageId = Null \/ startsWithDry(pageId)
           THEN /\ uploadedUrl' = NullUrl
                /\ macros' = MacrosAfterUpload(FALSE)
                /\ logs' = LogsAfterUpload(FALSE)
                /\ k' = k + 1
                /\ UNCHANGED pc
           ELSE /\ pc' = "list"
                /\ UNCHANGED << macros, logs, k, uploadedUrl >>
     IN IF isImg(file, k)
        THEN IF href \notin FilesOnDisk
             THEN /\ logs' = logEvent(title, "Missing image", href, 0)
                  /\ k' = k + 1
                  /\ UNCHANGED << macros, pc, uploadedUrl >>
             ELSE upload
        ELSE IF getPageMap[href] # ""
             THEN /\ macros' = macros \cup {k}
                  /\ logs' = logEvent(title, "Page link modified", getPageMap[href], 0)
                  /\ k' = k + 1
                  /\ UNCHANGED << pc, uploadedUrl >>
             ELSE IF extname(href) \in downloadableExtensions
             THEN IF href \in FilesOnDisk
                  THEN upload
                  ELSE /\ logs' = logEvent(title, "Missing file", href, 0)
                       /\ k' = k + 1
                       /\ UNCHANGED << macros, pc, uploadedUrl >>
             ELSE /\ k' = k + 1
                  /\ UNCHANGED << macros, logs, pc, uploadedUrl >>
  /\ i' = 0
  /\ existingAttachment' = NoAtt
  /\ UNCHANGED << store, stateFile, env, flags, runVars, last, searchOk,
                  existingPage, staleAt, phase, pageId, ret, created, v1, upl, clean >>
  /\ UNCHANGED pureVars

attKey == << pageId.num, fileName >>

findAttachmentNone == NoAtt

\* response.data.results.find(att => att.title === fileName)
findAttachment == attachments[attKey]

\* getExistingAttachment: an attempt of the attachment query comes back
ListResponds ==
  /\ pc = "list"
  /\ \E e \in EnvOutcomes :
       LET o == IF e = "deliver" THEN "ok" ELSE e
           step == safeAxiosCall(i, o)
       IN /\ failures' = IF e = "deliver" THEN failures ELSE failures + 1
          /\ clean' = (clean /\ e = "deliver")
          /\ IF step = "retry"
             THEN /\ i' = i + 1
                  /\ UNCHANGED << pc, last, existingAttachment >>
             ELSE /\ i' = 0
                  /\ last' = step
                  \* results.find(att => att.title === fileName); null after a failure
                  /\ existingAttachment' =
                       IF step = "return" THEN findAttachment ELSE NoAtt
                  /\ pc' = IF step = "return" /\ findAttachment # NoAtt
                           THEN "attUpdate" ELSE "attCreate"
  /\ UNCHANGED << store, stateFile, runs, extWrites, flags, runVars, searchOk,
                  existingPage, staleAt, phase, pageId, ret, created, v1, k, macros,
                  upl, uploadedUrl, logs >>
  /\ UNCHANGED pureVars

\* the store refuses a new attachment under a filename the page already has
StoreAcceptsAttachment(key) == attachments[key] = NoAtt
NextAttId == Cardinality({ a \in AttKeys : attachments[a] # NoAtt }) + 1

\* uploadAttachment, nothing found: an attempt of the creating POST comes back
AttCreateResponds ==
  /\ pc = "attCreate"
  /\ \E e \in EnvOutcomes :
       LET accepted == StoreAcceptsAttachment(attKey)
           o == IF e = "deliver" THEN (IF accepted THEN "ok" ELSE "err") ELSE e
           step == safeAxiosCall(i, o)
       IN /\ failures' = IF e = "deliver" THEN failures ELSE failures + 1
          /\ clean' = (clean /\ e = "deliver")
          /\ IF step = "retry"
             THEN /\ i' = i + 1
                  /\ UNCHANGED << pc, last, attachments, upl, uploadedUrl, macros, logs, k >>
             ELSE /\ i' = 0
                  /\ last' = step
                  /\ pc' = "refs"
                  /\ k' = k + 1
                  /\ uploadedUrl' = IF step = "return" THEN RemoteUrl(fileName) ELSE NullUrl
                  /\ macros' = MacrosAfterUpload(step = "return")
                  /\ logs' = LogsAfterUpload(step = "return")
                  /\ IF step = "return"
                     THEN /\ attachments' = [attachments EXCEPT ![attKey] =
                                               [id |-> NextAttId, content |-> href]]
                          /\ upl' = Append(upl, [name |-> fileName, href |-> href, op |-> "create"])
                     ELSE UNCHANGED << attachments, upl >>
  /\ UNCHANGED << pages, stateFile, runs, extWrites, flags, runVars, searchOk,
                  existingPage, staleAt, phase, pageId, ret, created, v1,
                  existingAttachment >>
  /\ UNCHANGED pureVars

\* the three shapes of the response to an attachment update: a results list,
\* a _links object, or neither (the link is then fetched by getAttachmentById)
ResponseShapes == {"results", "links", "bare"}

\* updateAttachment: an attempt of the data POST on the found attachment comes back
AttUpdateResponds ==
  /\ pc = "attUpdate"
  /\ \E e \in EnvOutcomes, shape \in ResponseShapes :
       LET o == IF e = "deliver" THEN "ok" ELSE e
           step == safeAxiosCall(i, o)
       IN /\ failures' = IF e = "deliver" THEN failures ELSE failures + 1
          /\ clean' = (clean /\ e = "deliver")
          /\ IF step = "retry"
             THEN /\ i' = i + 1
                  /\ UNCHANGED << pc, last, attachments, upl, uploadedUrl, macros, logs, k >>
             ELSE /\ i' = 0
                  /\ last' = step
                  /\ IF step = "return"
                     THEN /\ attachments' = [attachments EXCEPT ![attKey] =
                                               [id |-> existingAttachment.id,
                                                content |-> href]]
                          /\ upl' = Append(upl, [name |-> fileName, href |-> href,
                                                 op |-> "update"])
                     ELSE UNCHANGED << attachments, upl >>
                  /\ IF step = "return" /\ shape = "bare"
                     THEN /\ pc' = "attGet"
                          /\ UNCHANGED << k, macros, logs, uploadedUrl >>
                     ELSE /\ pc' = "refs"
                          /\ k' = k + 1
                          /\ uploadedUrl' = IF step = "return" THEN RemoteUrl(fileName)
                                                      ELSE NullUrl
                          /\ macros' = MacrosAfterUpload(step = "return")
                          /\ logs' = LogsAfterUpload(step = "return")
  /\ UNCHANGED << pages, stateFile, runs, extWrites, flags, runVars, searchOk,
                  existingPage, staleAt, phase, pageId, ret, created, v1,
                  existingAttachment >>
  /\ UNCHANGED pureVars

\* getAttachmentById: an attempt of the follow-up GET comes back
AttGetResponds ==
  /\ pc = "attGet"
  /\ \E e \in EnvOutcomes :
       LET o == IF e = "deliver" THEN "ok" ELSE e
           step == safeAxiosCall(i, o)
       IN /\ failures' = IF e = "deliver" THEN failures ELSE failures + 1
          /\ clean' = (clean /\ e = "deliver")
          /\ IF step = "retry"
             THEN /\ i' = i + 1
                  /\ UNCHANGED << pc, last, macros, logs, k, uploadedUrl >>
             ELSE /\ i' = 0
                  /\ last' = step
                  /\ pc' = "refs"
                  /\ k' = k + 1
                  \* updatedAttachment?._links?.download, null after a failure
                  /\ uploadedUrl' = IF step = "return" THEN RemoteUrl(fileName) ELSE NullUrl
                  /\ macros' = MacrosAfterUpload(step = "return")
                  /\ logs' = LogsAfterUpload(step = "return")
  /\ UNCHANGED << store, stateFile, runs, extWrites, flags, runVars, searchOk,
                  existingPage, staleAt, phase, pageId, ret, created, v1,
                  existingAttachment, upl >>
  /\ UNCHANGED pureVars

\* the final call made without waiting for the uploads
FinalCallEarly ==
  /\ pc = "refs"
  /\ phase' = "final"
  /\ pc' = "cou"
  /\ UNCHANGED << store, stateFile, env, flags, runVars, callVars, pageId, ret,
                  created, v1, k, existingAttachment, macros, upl, uploadedUrl, logs, clean >>
  /\ UNCHANGED pureVars

\* processImagesAndLinks returns; final createOrUpdatePage call with its result
FinalCall ==
  /\ pc = "refs"
  /\ k > Len(Refs(file))
  /\ phase' = "final"
  /\ pc' = "cou"
  /\ UNCHANGED << store, stateFile, env, flags, runVars, callVars, pageId, ret,
                  created, v1, k, existingAttachment, macros, upl, uploadedUrl, logs, clean >>
  /\ UNCHANGED pureVars

\* after the final call: state.transferred.push(file); saveState(state)
FinalizeDocument ==
  /\ pc = "couRet"
  /\ phase = "final"
  /\ state' = [state EXCEPT !.transferred = Append(@, file)]
  /\ stateFile' = saveState(state')
  /\ pc' = "pause"
  /\ UNCHANGED << store, env, flags, loaded, allFilesData, idx, processed, failed,
                  callVars, docVars, logs, clean >>
  /\ UNCHANGED pureVars

\* await delay(200) at the end of the loop body
PauseElapses ==
  /\ pc \in {"pause", "caught"}
  /\ idx' = idx + 1
  /\ pc' = "loop"
  /\ UNCHANGED << store, stateFile, env, flags, state, loaded, allFilesData,
                  processed, failed, callVars, docVars, logs, clean >>
  /\ UNCHANGED pureVars

\* ------------------------------------------------------- environment
\* the process is killed (Ctrl-C, power loss) while the run is under way
Interrupt ==
  /\ pc \notin Stopped
  /\ pc' = "killed"
  \* the memory of the process is gone
  /\ mode' = "normal" /\ IGNORE_STATE' = FALSE /\ LIMIT' = Infinity
  /\ limitArg' = [given |-> FALSE, n |-> 0]
  /\ state' = [hasList |-> TRUE, transferred |-> << >>]
  /\ loaded' = << >> /\ allFilesData' = << >> /\ idx' = 0 /\ processed' = << >>
  /\ failed' = << >> /\ uploadedUrl' = NoUrl
  /\ phase' = "none" /\ i' = 0 /\ last' = "none" /\ searchOk' = FALSE
  /\ existingPage' = NoPage /\ staleAt' = {} /\ pageId' = Null /\ ret' = Null
  /\ created' = FALSE /\ v1' = 0 /\ k' = 0 /\ existingAttachment' = NoAtt
  /\ macros' = {} /\ upl' = << >> /\ clean' = TRUE /\ logs' = << >>
  /\ UNCHANGED << store, stateFile, env >>
  /\ UNCHANGED pureVars

\* somebody else edits the page between the engine's search and its update
ConcurrentEdit ==
  /\ extWrites < MaxExternal
  /\ pc = "update"
  /\ pages' = [pages EXCEPT ![title] =
                 [id |-> @.id, version |-> @.version + 1, body |-> Body("external", {})]]
  /\ extWrites' = extWrites + 1
  /\ clean' = FALSE
  /\ UNCHANGED << attachments, stateFile, runs, failures, flags, runVars, pc,
                  callVars, docVars, logs >>
  /\ UNCHANGED pureVars

Next ==
  \/ StartRun
  \/ FinishRun
  \/ StateTypeError
  \/ SkipDocument
  \/ BeginDocument
  \/ ReadFails
  \/ EnterCreateOrUpdatePage
  \/ SearchResponds
  \/ UpdateResponds
  \/ CreateResponds
  \/ AfterFirstCall
  \/ ProcessRef
  \/ ListResponds
  \/ AttCreateResponds
  \/ AttUpdateResponds
  \/ AttGetResponds
  \/ FinalCall
  \/ FinalizeDocument
  \/ PauseElapses
  \/ Interrupt
  \/ ConcurrentEdit

Spec == Init /\ [][Next]_vars

\* --- a run that is not killed. Every await of the run resolves (each remote
\* call eventually returns, each delay elapses) and the synchronous code
\* between two awaits runs to its end, so the step the run is at is
\* eventually taken; starting a run and editing a page are up to others.
RunStep ==
  \/ FinishRun
  \/ StateTypeError
  \/ SkipDocument
  \/ BeginDocument
  \/ ReadFails
  \/ EnterCreateOrUpdatePage
  \/ SearchResponds
  \/ UpdateResponds
  \/ CreateResponds
  \/ AfterFirstCall
  \/ ProcessRef
  \/ ListResponds
  \/ AttCreateResponds
  \/ AttUpdateResponds
  \/ AttGetResponds
  \/ FinalCall
  \/ FinalizeDocument
  \/ PauseElapses

NextLive == StartRun \/ RunStep \/ ConcurrentEdit

SpecLive == Init /\ [][NextLive]_vars /\ WF_vars(RunStep)

TypeOK ==
  /\ pc \in {"idle", "loop", "cou", "search", "update", "create", "couRet", "refs",
             "list", "attCreate", "attUpdate", "attGet", "pause", "caught", "done",
             "exited", "killed"}
  /\ i \in 0..(retries - 1)
  /\ failures \in 0..MaxFailures

\* the catch block of safeAxiosCall: the delay that ends pass n of the loop
\* when the invocation failed with outcome o (0: the pass does not wait)
waitTime(n, o) ==
  IF o = "rate" THEN (2 ^ n) * 1000
  ELSE IF o = "err" /\ n # retries - 1 THEN 1000
  ELSE 0

\* the program at rest while a function is exercised on its own
ProgramIdle == ProgramInit /\ stateFile = StateFile("absent", << >>)

\* ================================================== module initialisation
\* The copies of the program in the repository: confluence.js holds two, the
\* second starts at line 324.
Copies == {"part_000", "main.js", "confluence.js", "confluence.js:324"}
Settings == {"CONFLUENCE_BASE_URL", "AUTH_EMAIL", "SPACE_KEY", "HTML_FOLDER_PATH"}
\* "" is a token that is not set
Tokens == {"", "token-1", "token-2"}
Starts == {1, 2}

\* the names the validation of a copy requires besides API_TOKEN
required(c) ==
  IF c = "part_000" THEN {"CONFLUENCE_BASE_URL", "SPACE_KEY"}
  ELSE {"CONFLUENCE_BASE_URL", "AUTH_EMAIL", "SPACE_KEY"}

\* the console lines of the code that runs when the file is loaded, up to the
\* CLI options: validation of the environment, then of the folder
moduleInitialisation(c, e, token) ==
  IF c = "confluence.js"
  THEN << IF token = "" THEN "undefined" ELSE token >>
  ELSE IF token = "" \/ \E n \in required(c) : ~e[n]
  THEN << "Missing environment variables", "Required" >>
  ELSE IF ~e["HTML_FOLDER_PATH"] THEN << "HTML_FOLDER_PATH folder not found" >>
  ELSE << "Configuration validated" >>

InitConfig ==
  /\ ProgramIdle /\ RetryIdle /\ HtmlIdle /\ LinksIdle
  /\ copy \in Copies
  /\ processEnv \in [Settings -> BOOLEAN]
  /\ API_TOKEN \in [Starts -> Tokens]
  /\ console = [r \in Starts |-> << >>]
  /\ started = {}

\* node <copy>: require('dotenv').config() and the statements that follow
LoadModule ==
  /\ \E r \in Starts \ started :
       /\ console' = [console EXCEPT ![r] = moduleInitialisation(copy, processEnv, API_TOKEN[r])]
       /\ started' = started \cup {r}
  /\ UNCHANGED << progVars, retryVars, htmlVars, linkVars, copy, processEnv, API_TOKEN >>

NextConfig == LoadModule

SpecConfig == InitConfig /\ [][NextConfig]_vars

\* ======================================================= safeAxiosCall alone
\* a wrapped call: invocation n answers with response n ("ok"), with a 429
\* ("rate") or with any other failure ("err")
AxiosCalls == [1..MaxInvocations -> {"ok", "rate", "err"}]

InitRetry ==
  /\ ProgramIdle /\ ConfigIdle /\ HtmlIdle /\ LinksIdle
  /\ axiosCall \in AxiosCalls
  /\ calls = 0 /\ attempt = 0 /\ outcome = "running" /\ returned = 0
  /\ waits = << >>

\* one pass of the for loop: try { return await axiosCall() } catch ...
Attempt ==
  /\ outcome = "running"
  /\ calls < MaxInvocations
  /\ LET step == safeAxiosCall(attempt, axiosCall[calls + 1])
     IN /\ calls' = calls + 1
        /\ waits' = Append(waits, waitTime(attempt, axiosCall[calls + 1]))
        /\ IF step = "retry"
           THEN /\ attempt' = attempt + 1
                /\ UNCHANGED << outcome, returned >>
           ELSE /\ outcome' = step
                /\ returned' = IF step = "return" THEN calls + 1 ELSE 0
                /\ UNCHANGED attempt
  /\ UNCHANGED << configVars, progVars, htmlVars, linkVars, axiosCall >>

NextRetry == Attempt

SpecRetry == InitRetry /\ [][NextRetry]_vars

\* ============================================================== cleanHtml
\* Markup is a sequence of nodes: text, comments and elements. An element
\* keeps its name as written, the lexemes between its name and the closing
\* ">" (white space, attributes, "/") and its children.
Ws == [lex |-> "ws", name |-> "", value |-> ""]
Slash == [lex |-> "slash", name |-> "", value |-> ""]
Attr(n, v) == [lex |-> "attr", name |-> n, value |-> v]
Text(s) == [type |-> "text", name |-> s, rest |-> << >>, children |-> << >>]
Comment(s) == [type |-> "comment", name |-> s, rest |-> << >>, children |-> << >>]
Tag(n, rest, kids) == [type |-> "tag", name |-> n, rest |-> rest, children |-> kids]

RECURSIVE Spaced(_)
\* attributes as written, each after one blank
Spaced(attrs) ==
  IF attrs = << >> THEN << >> ELSE << Ws, Head(attrs) >> \o Spaced(Tail(attrs))

\* String.prototype.toLowerCase on the names of the fixture
toLowerCase(s) ==
  CASE s = "DIV" -> "div" [] s = "P" -> "p" [] s = "SPAN" -> "span"
    [] s = "HTML" -> "html" [] s = "HEAD" -> "head" [] s = "BODY" -> "body"
    [] s = "SCRIPT" -> "script" [] s = "STYLE" -> "style" [] s = "META" -> "meta"
    [] s = "BR" -> "br" [] s = "IMG" -> "img"
    [] s = "CLASS" -> "class" [] s = "ID" -> "id" [] s = "SRC" -> "src"
    [] s = "CHECKED" -> "checked"
    [] OTHER -> s

selfClosingTags == {"area", "base", "br", "col", "embed", "hr", "img", "input", "link",
                    "meta", "source", "track", "wbr"}

RECURSIVE trimStart(_)
trimStart(r) == IF r # << >> /\ Head(r).lex = "ws" THEN trimStart(Tail(r)) ELSE r
RECURSIVE trimEnd(_)
trimEnd(r) ==
  IF r # << >> /\ r[Len(r)].lex = "ws" THEN trimEnd(SubSeq(r, 1, Len(r) - 1)) ELSE r
\* String.prototype.trim
trim(r) == trimEnd(trimStart(r))

\* html.replace(new RegExp(`<${tag}(\s[^>]*)?>`, 'gi'), ...) on one opening
\* tag: it matches when the name is a void name in any letter case and is
\* followed by ">" or by white space; the match becomes
\* `<${tag}${attrs ? ' ' + attrs : ''} />` with attrs trimmed
rewriteTag(t) ==
  IF /\ toLowerCase(t.name) \in selfClosingTags
     /\ (t.rest = << >> \/ t.rest[1].lex = "ws")
  THEN LET attrs == trim(t.rest)
       IN [t EXCEPT !.name = toLowerCase(t.name),
                    !.rest = (IF attrs # << >> THEN << Ws >> \o attrs ELSE << >>)
                             \o << Ws, Slash >>]
  ELSE t

RECURSIVE rewriteVoidTags(_)
\* selfClosingTags.forEach(tag => html = html.replace(regex, ...))
rewriteVoidTags(ns) ==
  [j \in 1..Len(ns) |->
     IF ns[j].type = "tag"
     THEN [rewriteTag(ns[j]) EXCEPT !.children = rewriteVoidTags(ns[j].children)]
     ELSE ns[j]]

\* --- cheerio.load(html, { xmlMode: true, decodeEntities: false }): names keep
\* their letter case, "/" before ">" closes any element
IsAttr(l) == l.lex = "attr"
attribsOf(rest) ==
  LET a == SelectSeq(rest, IsAttr)
  IN [j \in 1..Len(a) |-> [name |-> a[j].name, value |-> a[j].value]]
selfClosed(rest) == LET r == trimEnd(rest) IN r # << >> /\ r[Len(r)].lex = "slash"

RECURSIVE load(_)
load(ns) ==
  [j \in 1..Len(ns) |->
     [type |-> ns[j].type, name |-> ns[j].name, attribs |-> attribsOf(ns[j].rest),
      children |-> IF ns[j].type = "tag" /\ ~selfClosed(ns[j].rest)
                   THEN load(ns[j].children) ELSE << >>]]

RECURSIVE render(_)
\* $.html() in xml mode: attributes quoted, an element without children is closed by "/>"
render(ns) ==
  [j \in 1..Len(ns) |->
     [type |-> ns[j].type, name |-> ns[j].name,
      rest |-> IF ns[j].type = "tag"
               THEN Spaced([a \in 1..Len(ns[j].attribs) |->
                              Attr(ns[j].attribs[a].name, ns[j].attribs[a].value)])
                    \o (IF ns[j].children = << >> THEN << Slash >> ELSE << >>)
               ELSE << >>,
      children |-> render(ns[j].children)]]

RECURSIVE withoutComments(_)
withoutComments(ns) ==
  IF ns = << >> THEN << >>
  ELSE LET n == Head(ns)
           r == withoutComments(Tail(ns))
       IN IF n.type = "comment" THEN r
          ELSE << [n EXCEPT !.children = withoutComments(n.children)] >> \o r

\* $('*').contents().each(...): the comments among the children of elements
removeComments(doc) ==
  [j \in 1..Len(doc) |-> [doc[j] EXCEPT !.children = withoutComments(@)]]

unwanted == {"script", "style", "meta", "link", "head"}

RECURSIVE removeUnwanted(_)
\* $('script, style, meta, link, head').remove(): names compared as written
removeUnwanted(ns) ==
  IF ns = << >> THEN << >>
  ELSE LET n == Head(ns)
           r == removeUnwanted(Tail(ns))
       IN IF n.type = "tag" /\ n.name \in unwanted THEN r
          ELSE << [n EXCEPT !.children = removeUnwanted(n.children)] >> \o r

Variants == {"part_000", "part_002"}
\* removeAttr('style class id') / removeAttr('style class')
removedAttributes(v) ==
  IF v = "part_000" THEN {"style", "class", "id"} ELSE {"style", "class"}

RECURSIVE dropAttr(_, _)
dropAttr(attribs, names) ==
  IF attribs = << >> THEN << >>
  ELSE IF Head(attribs).name \in names THEN dropAttr(Tail(attribs), names)
       ELSE << Head(attribs) >> \o dropAttr(Tail(attribs), names)

RECURSIVE removeAttr(_, _)
removeAttr(ns, names) ==
  [j \in 1..Len(ns) |->
     [ns[j] EXCEPT !.attribs = dropAttr(@, names),
                   !.children = removeAttr(@, names)]]

\* $el.attr(name, value): the value of an existing key, or a new last key
setAttr(attribs, n, v) ==
  IF \E j \in 1..Len(attribs) : attribs[j].name = n
  THEN [j \in 1..Len(attribs) |->
          IF attribs[j].name = n THEN [name |-> n, value |-> v] ELSE attribs[j]]
  ELSE Append(attribs, [name |-> n, value |-> v])
valueOf(attribs, n) == (CHOOSE a \in Range(attribs) : a.name = n).value

RECURSIVE lowerKeys(_, _)
\* Object.keys(attributes).forEach(attr => ...)
lowerKeys(keys, attribs) ==
  IF keys = << >> THEN attribs
  ELSE LET attr == Head(keys)
       IN IF attr # toLowerCase(attr)
          THEN lowerKeys(Tail(keys),
                         setAttr(dropAttr(attribs, {attr}), toLowerCase(attr),
                                 valueOf(attribs, attr)))
          ELSE lowerKeys(Tail(keys), attribs)

RECURSIVE lowerCaseAttributes(_)
lowerCaseAttributes(ns) ==
  [j \in 1..Len(ns) |->
     [ns[j] EXCEPT !.attribs = lowerKeys([a \in 1..Len(@) |-> @[a].name], @),
                   !.children = lowerCaseAttributes(@)]]

RECURSIVE lowerCaseTags(_)
\* $('*').each: an element whose name is not lower case is replaced by a new
\* element with the lower-case name, its attributes and its children parsed
\* again from $el.html(); the elements below it that the loop visits later
\* are no longer part of the document
lowerCaseTags(ns) ==
  [j \in 1..Len(ns) |->
     IF ns[j].type = "tag" /\ ns[j].name # toLowerCase(ns[j].name)
     THEN [ns[j] EXCEPT !.name = toLowerCase(@), !.children = load(render(@))]
     ELSE [ns[j] EXCEPT !.children = lowerCaseTags(@)]]

booleanAttributes == {"checked", "selected", "disabled", "readonly", "multiple",
                      "autofocus", "autoplay", "controls", "defer", "hidden", "loop",
                      "open", "required", "reversed"}

fixBooleanAttributesNone(ns) == ns

RECURSIVE fixBooleanAttributes(_)
\* $('*').each: if ($el.attr(attr) !== undefined) $el.attr(attr, attr)
fixBooleanAttributes(ns) ==
  [j \in 1..Len(ns) |->
     [ns[j] EXCEPT !.attribs = [a \in 1..Len(@) |->
                                  IF @[a].name \in booleanAttributes
                                  THEN [name |-> @[a].name, value |-> @[a].name]
                                  ELSE @[a]],
                   !.children = fixBooleanAttributes(@)]]

RECURSIVE findAll(_, _)
\* $(name): the elements with that name, in document order
findAll(ns, n) ==
  IF ns = << >> THEN << >>
  ELSE (IF Head(ns).type = "tag"
        THEN (IF Head(ns).name = n THEN << Head(ns) >> ELSE << >>)
             \o findAll(Head(ns).children, n)
        ELSE << >>) \o findAll(Tail(ns), n)

\* --- extractFrontMatter. The text before the markup is a sequence of text
\* runs: the marker "---", white space, and lines of metadata.
Dash == Text("---")
Nl == Text("\n")
IsSpace(n) == n.type = "text" /\ n.name \in {"\n", " "}
ValidYaml == {Text("title: T"), Text("draft: true")}
InvalidYaml == {Text("tags: [a"), Text("a: b: c")}

RECURSIVE skipSpace(_)
skipSpace(ns) == IF ns # << >> /\ IsSpace(Head(ns)) THEN skipSpace(Tail(ns)) ELSE ns
RECURSIVE dropSpaceAtEnd(_)
dropSpaceAtEnd(ns) ==
  IF ns # << >> /\ IsSpace(ns[Len(ns)]) THEN dropSpaceAtEnd(SubSeq(ns, 1, Len(ns) - 1))
  ELSE ns

\* html.match(/^---\s*([\s\S]*?)\s*---\s*/): the text starts with the marker
\* and the marker occurs again; group 1 is what lies between the two, without
\* the white space around it, and the match ends after the white space that
\* follows the second marker
frontMatterRegex(ns) ==
  IF ns # << >> /\ ns[1] = Dash /\ \E j \in 2..Len(ns) : ns[j] = Dash
  THEN LET j == CHOOSE m \in 2..Len(ns) :
                  ns[m] = Dash /\ \A n \in 2..(m - 1) : ns[n] # Dash
           after == skipSpace(SubSeq(ns, j + 1, Len(ns)))
       IN [matched |-> TRUE,
           group |-> dropSpaceAtEnd(skipSpace(SubSeq(ns, 2, j - 1))),
           length |-> Len(ns) - Len(after)]
  ELSE [matched |-> FALSE, group |-> << >>, length |-> 0]

\* yaml.load: throws on a document that is not YAML, gives undefined for an
\* empty one and the parsed value otherwise
yamlLoad(src) ==
  IF \E n \in 1..Len(src) : src[n] \in InvalidYaml THEN [kind |-> "throws", src |-> << >>]
  ELSE IF src = << >> THEN [kind |-> "undefined", src |-> << >>]
  ELSE [kind |-> "value", src |-> src]

\* the function without its try block
extractFrontMatterNoCatch(ns) ==
  LET match == frontMatterRegex(ns)
  IN IF ~match.matched
     THEN [thrown |-> FALSE, frontMatter |-> NoFrontMatter, content |-> ns]
     ELSE IF yamlLoad(match.group).kind = "throws"
          THEN [thrown |-> TRUE, frontMatter |-> NoFrontMatter, content |-> << >>]
          ELSE [thrown |-> FALSE, frontMatter |-> yamlLoad(match.group),
                content |-> SubSeq(ns, match.length + 1, Len(ns))]

extractFrontMatter(ns) ==
  LET match == frontMatterRegex(ns)
  IN IF ~match.matched
     THEN [thrown |-> FALSE, frontMatter |-> NoFrontMatter, content |-> ns]
     ELSE [thrown |-> FALSE,
           frontMatter |-> IF yamlLoad(match.group).kind = "throws"
                           THEN NoFrontMatter ELSE yamlLoad(match.group),
           content |-> SubSeq(ns, match.length + 1, Len(ns))]

\* let { frontMatter, content } = extractFrontMatter(html), in part_002 only
frontMatterOf(v, markup) ==
  IF v = "part_002" THEN extractFrontMatter(markup)
  ELSE [thrown |-> FALSE, frontMatter |-> NoFrontMatter, content |-> markup]

\* the markup cleanHtml returns; nothing when it throws
cleanHtml(v, markup) ==
  LET content == rewriteVoidTags(frontMatterOf(v, markup).content)
      d == fixBooleanAttributes(lowerCaseTags(lowerCaseAttributes(
             removeAttr(removeUnwanted(removeComments(load(content))),
                        removedAttributes(v)))))
      body == findAll(d, "body")
  IN IF frontMatterOf(v, markup).thrown THEN << >>
     ELSE IF body # << >> THEN render(body[1].children) ELSE render(d)

\* --- the documents cleanHtml is exercised on
AttrMenu == {Attr("class", "x"), Attr("CLASS", "x"), Attr("style", "s"),
             Attr("STYLE", "s"), Attr("id", "y"), Attr("ID", "y"),
             Attr("title", "t"), Attr("CHECKED", ""), Attr("checked", "no")}
AttrLists ==
  { as \in UNION { [1..m -> AttrMenu] : m \in 0..MaxAttrs } :
      \A a, b \in 1..Len(as) : a # b => as[a].name # as[b].name }
Kids == {Text("x"), Comment("c"), Tag("script", << >>, << Text("js") >>),
         Tag("SCRIPT", << >>, << Text("js") >>),
         Tag("STYLE", << >>, << Text("css") >>),
         Tag("meta", << Ws, Attr("name", "m") >>, << >>),
         Tag("META", << Ws, Attr("name", "m") >>, << >>),
         Tag("p", << >>, << Text("x") >>)}
KidLists == UNION { [1..m -> Kids] : m \in 1..MaxKids }
VoidTags ==
  { Tag(v, Spaced(as) \o end, << >>) :
      v \in {"br", "BR", "img", "IMG"},
      as \in {<< >>, << Attr("src", "a.png") >>, << Attr("SRC", "a.png") >>},
      end \in {<< >>, << Slash >>, << Ws, Slash >>} }

HtmlInputs ==
  \* one element with attributes
  { << Tag(n, Spaced(as), << Text("x") >>) >> : n \in {"div", "DIV"}, as \in AttrLists }
  \* a fragment, or one wrapping element, with unwanted content
  \cup KidLists
  \cup { << Tag(w, << >>, ks) >> : w \in {"div", "body", "BODY"}, ks \in KidLists }
  \* a whole document
  \cup { << Tag(h, << >>,
              << Tag(hd, << >>, << Tag("title", << >>, << Text("t") >>) >>),
                 Tag(b, << >>, << kid >>) >>) >> :
           h \in {"html", "HTML"}, hd \in {"head", "HEAD"}, b \in {"body", "BODY"},
           kid \in Kids }
  \* void elements in their three spellings
  \cup { << Tag("p", << >>, << v, Text("x") >>) >> : v \in VoidTags }
  \* elements nested three deep
  \cup { << Tag(a, << >>, << Tag(b, Spaced(as), << Tag(c, << >>, << Text("x") >>) >>) >>) >> :
           a \in {"div", "DIV"}, b \in {"p", "P"}, c \in {"span", "SPAN"},
           as \in {<< >>, << Attr("title", "t") >>, << Attr("CLASS", "x") >>,
                   << Attr("CHECKED", "") >>} }

InitHtml ==
  /\ ProgramIdle /\ ConfigIdle /\ RetryIdle /\ LinksIdle
  /\ html \in HtmlInputs
  /\ variant \in Variants
  /\ cleaned = << >> /\ recleaned = << >>
  /\ extracted = NotExtracted
  /\ hstage = "input"

\* clean_html = cleanHtml(html)
CleanHtml ==
  /\ hstage = "input"
  /\ extracted' = frontMatterOf(variant, html)
  /\ cleaned' = cleanHtml(variant, html)
  /\ hstage' = IF frontMatterOf(variant, html).thrown THEN "thrown" ELSE "cleaned"
  /\ UNCHANGED << configVars, progVars, retryVars, linkVars, html, variant, recleaned >>

\* cleanHtml applied to its own output
CleanAgain ==
  /\ hstage = "cleaned"
  /\ recleaned' = cleanHtml(variant, cleaned)
  /\ hstage' = IF frontMatterOf(variant, cleaned).thrown THEN "thrown" ELSE "recleaned"
  /\ UNCHANGED << configVars, progVars, retryVars, linkVars, html, variant, cleaned, extracted >>

NextHtml == CleanHtml \/ CleanAgain

SpecHtml == InitHtml /\ [][NextHtml]_vars

\* --- documents that begin with text: front matter that is well formed,
\* empty, not YAML or not closed, followed by markup
Blocks ==
  { << Dash >> \o sp1 \o yl \o sp2 \o << Dash >> \o sp3 :
      sp1 \in {<< >>, << Nl >>}, sp2 \in {<< >>, << Nl >>}, sp3 \in {<< >>, << Nl >>},
      yl \in {<< >>} \cup { << y >> : y \in ValidYaml \cup InvalidYaml }
              \cup { << y, Nl, z >> : y \in ValidYaml, z \in ValidYaml \cup InvalidYaml } }
Unclosed == { << >>, << Dash, Nl >>, << Dash, Nl, Text("title: T"), Nl >>,
              << Nl, Dash, Nl, Text("title: T"), Nl, Dash, Nl >> }
Bodies == { << Tag("p", << >>, << Text("x") >>) >>,
            << Tag("DIV", << Ws, Attr("CLASS", "x") >>, << Tag("br", << >>, << >>) >>) >> }
FrontMatterInputs == { b \o m : b \in Blocks \cup Unclosed, m \in Bodies }

InitFrontMatter ==
  /\ ProgramIdle /\ ConfigIdle /\ RetryIdle /\ LinksIdle
  /\ html \in FrontMatterInputs
  /\ variant = "part_002"
  /\ cleaned = << >> /\ recleaned = << >>
  /\ extracted = NotExtracted
  /\ hstage = "input"

SpecFrontMatter == InitFrontMatter /\ [][NextHtml]_vars

\* ================================================== processImagesAndLinks
\* A document is a sequence of elements: <img src>, <a href>text</a> and
\* elements that carry an id.
Img(src) == [tag |-> "img", ref |-> src, id |-> "", text |-> ""]
A(h) == [tag |-> "a", ref |-> h, id |-> "", text |-> "t"]
P(id) == [tag |-> "p", ref |-> "", id |-> id, text |-> "x"]

LinkHrefs == {"", "b.html", "images/a.png", "docs/r.pdf", "https://e.org/",
              "#top", "#", "#a:b", "#sec.1", "#nowhere"}

\* href.startsWith('#') and href.substring(1)
startsWithHash(h) == h \in {"#top", "#", "#a:b", "#sec.1", "#nowhere"}
substring1(h) ==
  CASE h = "#top" -> "top" [] h = "#" -> "" [] h = "#a:b" -> "a:b"
    [] h = "#sec.1" -> "sec.1" [] h = "#nowhere" -> "nowhere"
    [] OTHER -> h

\* escapeHTML: & < > ' " become entities
escapeHTML(t) == IF t = "Q&A" THEN "Q&amp;A" ELSE t

\* the pageMap argument of part_002: any of these keys with its title
PageKeys == {"b.html", "#top", "images/a.png", "docs/r.pdf"}
PageTitle(h) ==
  CASE h = "b.html" -> "Page B" [] h = "#top" -> "Top"
    [] h = "images/a.png" -> "Q&A" [] OTHER -> "Report"
PageMaps(v) ==
  IF v = "part_002"
  THEN { [h \in LinkHrefs |-> IF h \in K THEN PageTitle(h) ELSE ""] : K \in SUBSET PageKeys }
  ELSE { [h \in LinkHrefs |-> IF h \in Hrefs THEN getPageMap[h] ELSE ""] }

Docs ==
  { im \o ls : im \in {<< >>, << Img("images/a.png") >>, << Img("missing.png") >>},
               ls \in UNION { [1..m -> { A(h) : h \in LinkHrefs } \cup {P("top"), P("sec.1")}] :
                              m \in 0..MaxLinks } }

Kept == [kind |-> "kept", a |-> "", b |-> "", anchors |-> << >>]
Macro(kind, a, b) == [kind |-> kind, a |-> a, b |-> b, anchors |-> << >>]

\* $('img').toArray() followed by $('a').toArray(): positions in the document
tagPositions(d, tag) ==
  LET Is(j) == d[j].tag = tag
  IN SelectSeq([j \in 1..Len(d) |-> j], Is)
work(d) == tagPositions(d, "img") \o tagPositions(d, "a")

\* the selector `#${targetId}` as the selector parser reads it: an empty name
\* and an unknown pseudo-class are errors, "." starts a class name
idSelector(targetId) ==
  CASE targetId = "" -> [throws |-> TRUE, id |-> "", class |-> ""]
    [] targetId = "a:b" -> [throws |-> TRUE, id |-> "", class |-> ""]
    [] targetId = "sec.1" -> [throws |-> FALSE, id |-> "sec", class |-> "1"]
    [] OTHER -> [throws |-> FALSE, id |-> targetId, class |-> ""]

\* $(`#${targetId}`): the elements still in the document that the selector
\* matches; no element of these documents carries a class
targetEl(d, o, targetId) ==
  { j \in 1..Len(d) : /\ o[j].kind = "kept"
                      /\ d[j].id # "" /\ d[j].id = idSelector(targetId).id
                      /\ idSelector(targetId).class = "" }

\* the branch of the if / else-if chain a link takes, with the page branch
\* after the others
linkBranchPageLast(v, h, map, images) ==
  IF v = "part_002" /\ startsWithHash(h) THEN "anchor"
  ELSE IF v = "part_002" /\ h \in Range(images) THEN "imageLink"
  ELSE IF extname(h) \in downloadableExtensions THEN "download"
  ELSE IF map[h] # "" THEN "page"
  ELSE "none"

\* the branch of the if / else-if chain a link takes
linkBranch(v, h, map, images) ==
  IF map[h] # "" THEN "page"
  ELSE IF v = "part_002" /\ startsWithHash(h) THEN "anchor"
  ELSE IF v = "part_002" /\ h \in Range(images) THEN "imageLink"
  ELSE IF extname(h) \in downloadableExtensions THEN "download"
  ELSE "none"

InitLinks ==
  /\ ProgramIdle /\ ConfigIdle /\ RetryIdle /\ HtmlIdle
  /\ linksVariant \in Variants
  /\ pageMap \in PageMaps(linksVariant)
  /\ linkDoc \in Docs
  /\ out = [j \in 1..Len(linkDoc) |-> Kept]
  /\ imagesToUpload = << >> /\ filesToUpload = << >>
  /\ uploads = << >>
  /\ pos = 1
  /\ lstage = "running"

\* one pass of for (const img of imgTags.toArray())
ProcessImage ==
  /\ lstage = "running"
  /\ pos <= Len(work(linkDoc))
  /\ linkDoc[work(linkDoc)[pos]].tag = "img"
  /\ LET j == work(linkDoc)[pos]
         src == linkDoc[j].ref
     IN IF src = "" \/ src \notin FilesOnDisk
        THEN UNCHANGED << out, imagesToUpload, uploads >>
        ELSE /\ out' = [out EXCEPT ![j] = Macro("image", basename(src), "")]
             /\ imagesToUpload' = IF linksVariant = "part_002"
                                  THEN Append(imagesToUpload, src)
                                  ELSE imagesToUpload
             \* uploadAttachment(pageId, fullPath, fileName)
             /\ uploads' = IF linksVariant = "part_000"
                           THEN Append(uploads, [path |-> src, name |-> basename(src)])
                           ELSE uploads
  /\ pos' = pos + 1
  /\ UNCHANGED << configVars, progVars, retryVars, htmlVars, linkDoc, linksVariant, pageMap,
                  filesToUpload, lstage >>

\* one pass of for (const el of anchorTags.toArray()); uploaded is what
\* uploadAttachment returns in part_000
ProcessLink ==
  /\ lstage = "running"
  /\ pos <= Len(work(linkDoc))
  /\ linkDoc[work(linkDoc)[pos]].tag = "a"
  /\ \E uploaded \in BOOLEAN :
       LET j == work(linkDoc)[pos]
           h == linkDoc[j].ref
           linkText == linkDoc[j].text
           branch == IF h = "" THEN "none"
                     ELSE linkBranch(linksVariant, h, pageMap, imagesToUpload)
           targetId == substring1(h)
           replaced == [out EXCEPT ![j] = Macro("anchor", targetId, linkText)]
       IN /\ (linksVariant = "part_002" \/ branch # "download"
                \/ h \notin FilesOnDisk) => uploaded
          /\ CASE branch = "page" ->
                    /\ out' = [out EXCEPT ![j] =
                                 Macro("page",
                                       IF linksVariant = "part_002"
                                       THEN escapeHTML(pageMap[h]) ELSE pageMap[h],
                                       linkText)]
                    /\ UNCHANGED << filesToUpload, lstage >>
               [] branch = "anchor" ->
                    /\ out' = IF idSelector(targetId).throws THEN replaced
                              ELSE [n \in 1..Len(linkDoc) |->
                                      IF n \in targetEl(linkDoc, replaced, targetId)
                                      THEN [replaced[n] EXCEPT
                                              !.anchors = << targetId >> \o @]
                                      ELSE replaced[n]]
                    /\ lstage' = IF idSelector(targetId).throws THEN "thrown" ELSE lstage
                    /\ UNCHANGED filesToUpload
               [] branch = "imageLink" ->
                    /\ out' = [out EXCEPT ![j] = Macro("imageLink", "", linkText)]
                    /\ UNCHANGED << filesToUpload, lstage >>
               [] branch = "download" ->
                    IF h \in FilesOnDisk /\ uploaded
                    THEN /\ out' = [out EXCEPT ![j] = Macro("attachment", h, linkText)]
                         /\ filesToUpload' = IF linksVariant = "part_002"
                                             THEN Append(filesToUpload, h)
                                             ELSE filesToUpload
                         /\ UNCHANGED lstage
                    ELSE UNCHANGED << out, filesToUpload, lstage >>
               [] OTHER -> UNCHANGED << out, filesToUpload, lstage >>
  \* uploadAttachment(pageId, filePath, path.basename(href))
  /\ LET h == linkDoc[work(linkDoc)[pos]].ref
     IN uploads' = IF /\ linksVariant = "part_000" /\ h # ""
                     /\ linkBranch(linksVariant, h, pageMap, imagesToUpload) = "download"
                     /\ h \in FilesOnDisk
                  THEN Append(uploads, [path |-> h, name |-> basename(h)])
                  ELSE uploads
  /\ pos' = pos + 1
  /\ UNCHANGED << configVars, progVars, retryVars, htmlVars, linkDoc, linksVariant, pageMap,
                  imagesToUpload >>

\* return { confluence_html, files } / return $.html()
ReturnLinks ==
  /\ lstage = "running"
  /\ pos > Len(work(linkDoc))
  /\ lstage' = "returned"
  /\ UNCHANGED << configVars, progVars, retryVars, htmlVars, linkDoc, linksVariant, pageMap, out,
                  imagesToUpload, filesToUpload, uploads, pos >>

NextLinks == ProcessImage \/ ProcessLink \/ ReturnLinks

SpecLinks == InitLinks /\ [][NextLinks]_vars

\* ================================================================ claims
Files(s) == [n \in 1..Len(s) |-> s[n].file]
Listed(f) == IF f.kind = "ok" THEN Range(f.transferred) ELSE {}
\* the references of a document that name a local file to upload
Uploadable(f, n) ==
  LET h == Refs(f)[n]
  IN /\ h \in FilesOnDisk
     /\ \/ isImg(f, n)
        \/ getPageMap[h] = "" /\ extname(h) \in downloadableExtensions
InFlight == {"cou", "search", "update", "create", "couRet", "refs", "list",
             "attCreate", "attUpdate", "attGet"}

\* C1: a document is added to the transferred set and the resume state saved
\* only if the final createOrUpdatePage call returned a page id; a document
\* whose final update failed is not marked transferred.
C1_MarkedOnlyAfterFinalSuccess == pc = "pause" => ret # Null

\* C2: a create request for a title is submitted only after a search for that
\* title got a response that held no page, never for a title the space already has.
C2_CreateOnlyAfterEmptySearch ==
  pc = "create" => (searchOk /\ pages[title] = NoPage)

\* C3: safeAxiosCall ends either with a response or by throwing the last
\* failure; it never returns without a response.
C3_NeverReturnsWithoutResponse == last # "undefined"

\* C4: with every call answered, two createOrUpdatePage calls with one title
\* leave one page: the first creates it, the second updates it with the
\* version read plus one, the version grows and both return the same id.
C4_SecondCallUpdates ==
  (mode = "normal" /\ clean /\ created /\ phase = "final" /\ pc = "couRet") =>
    /\ ret = pageId
    /\ ret.kind = "real"
    /\ pages[title].id = pageId.num
    /\ Cardinality({ t \in Titles : pages[t].id = pageId.num }) = 1
    /\ pages[title].version = existingPage.version + 1
    /\ pages[title].version > v1
    /\ pages[title].body = Body(file, macros)

C4_Witness ==
  /\ mode = "normal" /\ clean /\ created /\ phase = "final" /\ pc = "couRet"
  /\ macros = {}
  /\ pages[title].version = 2

\* C5: with every call answered, uploading one filename twice to one page
\* leaves one attachment of that name holding the second file: the first
\* upload creates the attachment, the second updates the existing one.
C5_UploadTwiceUpserts ==
  (mode = "normal" /\ clean /\ pc = "refs") =>
    /\ \A n \in 1..(k - 1) :
         Uploadable(file, n) => \E m \in 1..Len(upl) : upl[m].href = Refs(file)[n]
    /\ \A m \in 1..Len(upl) :
         LET earlier == \E j \in 1..(m - 1) : upl[j].name = upl[m].name
             later == \E j \in (m + 1)..Len(upl) : upl[j].name = upl[m].name
         IN /\ earlier => upl[m].op = "update"
            /\ (created /\ ~earlier) => upl[m].op = "create"
            /\ ~later => attachments[<< pageId.num, upl[m].name >>].content = upl[m].href

C5_Witness ==
  /\ mode = "normal" /\ clean /\ created /\ pc = "refs"
  /\ Len(upl) >= 2
  /\ upl[1].name = upl[2].name /\ upl[1].href # upl[2].href
  /\ upl[1].op = "create" /\ upl[2].op = "update"
  /\ attachments[<< pageId.num, upl[2].name >>].content = upl[2].href

C7_InFlightAbsentFromFile ==
  pc \in InFlight =>
    /\ file \notin Range(state.transferred)
    /\ file \notin Listed(stateFile)

\* C8 (as claimed): once the store has rejected an update as stale, the same
\* createOrUpdatePage call submits no further update.
C8_NoResubmitAfterStale == ~(pc = "update" /\ staleAt # {})

\* C8 (amended): a stale rejection is retried like any other failure that is
\* not a rate limit: the update is resubmitted until the three attempts are
\* used, and a rejection of the third ends the call without a page id.
C8_StaleRetriedToBudget ==
  /\ pc = "update" => staleAt \subseteq 0..(i - 1)
  /\ (pc = "couRet" /\ staleAt # {}) =>
       /\ i = retries - 1
       /\ last # "return"
       /\ (retries - 1) \in staleAt => ret = Null

C8_Witness == pc = "couRet" /\ staleAt = 0..(retries - 1) /\ ret = Null

\* C9: whatever the state file holds, the run is never ended by it.
C9_StateFileNeverFatal == ~(pc = "exited" /\ ~state.hasList)

\* C10 (as claimed): with --limit=N the run processes the first N documents
\* of the index that are not in the resume state.
C10_FirstNPending ==
  pc = "done" =>
    processed = Files(Slice(SelectDocs(getHtmlFilesFromIndex, Range(loaded)), LIMIT))

\* C10 (amended): with --limit=N, N >= 1, the run takes the first N documents
\* of the index and processes those of them that are not in the resume
\* state: documents already transferred count against N.
C10_FirstNListed ==
  pc = "done" =>
    /\ Len(processed) <= LIMIT
    /\ processed = Files(SelectDocs(Slice(getHtmlFilesFromIndex, LIMIT), Range(loaded)))

C10_Witness ==
  /\ pc = "done" /\ LIMIT = 1
  /\ "index.html" \in Range(loaded)
  /\ processed = << >>

\* the pages of the remote store are spoken to only from these positions
RemoteCalls == {"search", "update", "create", "list", "attCreate", "attUpdate", "attGet"}
titleOf(f) == (CHOOSE e \in Range(getHtmlFilesFromIndex) : e.file = f).title

C12_DryRunIssuesNoRemoteCall ==
  (mode \in {"dry-run", "dry-run-local"} /\ pc \notin Stopped) =>
    /\ pc \notin RemoteCalls
    /\ i = 0
    /\ pc = "couRet" =>
         ret = (IF mode = "dry-run" THEN DryId(title) ELSE DryLocalId(title))
    /\ pc = "refs" =>
         /\ startsWithDry(pageId) /\ upl = << >>
         /\ \A n \in 1..(k - 1) : Uploadable(file, n) => n \in macros
         /\ (k > 1 /\ Uploadable(file, k - 1)) =>
              uploadedUrl = (IF mode = "dry-run"
                             THEN DummyUrl(basename(Refs(file)[k - 1]))
                             ELSE LocalPath(basename(Refs(file)[k - 1])))

C12_Witness ==
  /\ mode = "dry-run-local" /\ pc = "refs" /\ file = "a.html" /\ k = 5
  /\ pageId = DryLocalId("A")
  /\ uploadedUrl = LocalPath("r.pdf")
  /\ pages = [t \in Titles |-> NoPage]

\* C13: documents are taken one at a time in index order: the documents the
\* run has started are the non-skipped ones among the entries the loop has
\* reached, every one before the current one is finished (recorded as
\* transferred, with the state file written, or given up), and a remote
\* call is under way only for the current one.
C13_OneDocumentAtATime ==
  pc \notin Stopped =>
    /\ processed = Files(SelectDocs(SubSeq(allFilesData, 1,
                           IF pc \in InFlight \cup {"pause", "caught"} THEN idx ELSE idx - 1),
                         Range(loaded)))
    /\ \A n \in 1..Len(processed) :
         (pc \in InFlight /\ n = Len(processed)) \/
           \/ processed[n] \in Range(failed)
           \/ /\ processed[n] \in Range(state.transferred)
              /\ stateFile = StateFile("ok", state.transferred)
    /\ pc \in InFlight => (idx \in 1..Len(allFilesData) /\ processed[Len(processed)] = file)
    /\ pc \in RemoteCalls => (pc \in InFlight /\ phase \in {"first", "final"})

C13_Witness ==
  /\ pc = "search" /\ phase = "first" /\ file = "c.html"
  /\ processed = << "index.html", "a.html", "b.html", "c.html" >>
  /\ state.transferred = << "index.html", "a.html", "b.html" >>
  /\ pages["A"].body = Body("a.html", {1, 2, 3, 4})

\* C14: whatever the wrapped call does, safeAxiosCall invokes it at most
\* three times, stops at the first invocation that succeeds and returns the
\* response of that invocation.
C14_AtMostThreeInvocations ==
  /\ calls <= retries
  /\ calls = attempt + (IF outcome = "running" THEN 0 ELSE 1)
  /\ \A n \in 1..calls :
       axiosCall[n] = "ok" => (n = calls /\ outcome = "return" /\ returned = n)
  /\ outcome = "return" => (returned = calls /\ axiosCall[calls] = "ok")

C14_Witness ==
  /\ outcome = "return" /\ calls = retries /\ returned = retries
  /\ axiosCall[1] = "rate" /\ axiosCall[2] = "err"

RECURSIVE Nodes(_)
\* every node of a piece of markup
Nodes(ns) == UNION { {ns[j]} \cup Nodes(ns[j].children) : j \in 1..Len(ns) }
AttrNames(n) == { n.rest[j].name : j \in { m \in 1..Len(n.rest) : n.rest[m].lex = "attr" } }

\* C15: cleanHtml of one element, written in any letter case, gives the
\* element with lower-case tag and attribute names and without class and
\* style attribute; id is kept by the part_002 variant only.
C15_ClassAndStyleRemoved ==
  (hstage = "cleaned" /\ Len(html) = 1 /\ html[1].name \in {"div", "DIV"}
     /\ html[1].children = << Text("x") >>) =>
    /\ Len(cleaned) = 1
    /\ cleaned[1].name = "div"
    /\ \A a \in AttrNames(cleaned[1]) :
         a = toLowerCase(a) /\ a \notin {"class", "style"}
    /\ "id" \in AttrNames(cleaned[1]) <=>
         (variant = "part_002" /\ AttrNames(html[1]) \cap {"id", "ID"} # {})

\* C16: the output of cleanHtml holds no script, style, meta, link or head
\* element in any letter case, nothing of their content, and no comment.
C16_NoUnwantedElementOrComment ==
  hstage = "cleaned" =>
    \A n \in Nodes(cleaned) :
      /\ n.type # "comment"
      /\ n.type = "tag" => toLowerCase(n.name) \notin unwanted
      /\ n.type = "text" => n.name \notin {"js", "css", "t"}

\* C19: cleanHtml of its own output is that output, and the rewrite of void
\* tags closes every void opening tag and leaves a closed one as written.
C19_CleanHtmlIdempotent ==
  /\ hstage = "recleaned" => recleaned = cleaned
  /\ hstage = "cleaned" =>
       \A t \in Nodes(html) :
         (t.type = "tag" /\ toLowerCase(t.name) \in selfClosingTags) =>
           /\ selfClosed(rewriteTag(t).rest)
           /\ selfClosed(t.rest) => rewriteTag(t) = t

\* C20: extractFrontMatter never throws. A block that is not YAML gives null
\* metadata and the text after the block, the same text a well-formed block
\* gives; a text that does not begin with a closed block gives null metadata
\* and the text itself; cleanHtml returns the normalised body in every case.
C20_FrontMatterNeverThrows ==
  /\ hstage # "thrown"
  /\ hstage \in {"cleaned", "recleaned"} =>
       /\ ~extracted.thrown
       /\ \E b \in Blocks \cup Unclosed, m \in Bodies :
            /\ html = b \o m
            /\ extracted.content = (IF b \in Blocks THEN m ELSE html)
            /\ (b \in Unclosed \/ Range(b) \cap InvalidYaml # {}) =>
                 extracted.frontMatter = NoFrontMatter
            /\ (b \in Blocks /\ Range(b) \cap InvalidYaml = {} /\ Range(b) \cap ValidYaml # {}) =>
                 extracted.frontMatter.kind = "value"
            /\ cleaned = cleanHtml("part_000", IF b \in Blocks THEN m ELSE html)
            /\ cleaned # << >>
C20_Witness ==
  /\ hstage = "cleaned"
  /\ html = << Dash, Nl, Text("title: T"), Nl, Text("tags: [a"), Nl, Dash, Nl,
               Tag("p", << >>, << Text("x") >>) >>
  /\ extracted = [thrown |-> FALSE, frontMatter |-> NoFrontMatter,
                  content |-> << Tag("p", << >>, << Text("x") >>) >>]
  /\ cleaned = << Tag("p", << >>, << Text("x") >>) >>

\* the elements of the document whose pass of the loop is over
Looped == { work(linkDoc)[m] : m \in 1..(pos - 1) }
\* an attribute value read back as text
decodeEntities(t) == IF t = "Q&amp;A" THEN "Q&A" ELSE t

\* C17: a link whose href is a key of the PageMap becomes a page-reference
\* macro with the mapped title and the link text, also when the href starts
\* with '#', is the path of a queued image or has a downloadable extension,
\* and it is never queued for upload.
C17_PageMapKeyFirst ==
  /\ \A n \in Looped :
       (linkDoc[n].tag = "a" /\ pageMap[linkDoc[n].ref] # "") =>
         /\ out[n].kind = "page"
         /\ decodeEntities(out[n].a) = pageMap[linkDoc[n].ref]
         /\ out[n].b = linkDoc[n].text
  /\ \A f \in Range(filesToUpload) : pageMap[f] = ""
C17_Witness ==
  /\ lstage = "returned" /\ linksVariant = "part_002"
  /\ linkDoc = << Img("images/a.png"), A("images/a.png"), A("#top"), A("docs/r.pdf") >>
  /\ out = << Macro("image", "a.png", ""), Macro("page", "Q&amp;A", "t"),
              Macro("page", "Top", "t"), Macro("page", "Report", "t") >>
  /\ imagesToUpload = << "images/a.png" >> /\ filesToUpload = << >>

\* C18: a link whose href starts with '#' and is no PageMap key becomes an
\* anchor-reference macro with the text after '#', every element whose id is
\* that text gets an anchor-definition macro, and no fragment makes
\* processImagesAndLinks raise an error.
C18_FragmentNeverRaises ==
  linksVariant = "part_002" =>
    /\ lstage # "thrown"
    /\ \A n \in Looped :
         (linkDoc[n].tag = "a" /\ startsWithHash(linkDoc[n].ref)
            /\ pageMap[linkDoc[n].ref] = "") =>
           /\ out[n] = Macro("anchor", substring1(linkDoc[n].ref), linkDoc[n].text)
           /\ \A t \in 1..Len(linkDoc) :
                linkDoc[t].id = substring1(linkDoc[n].ref) =>
                  substring1(linkDoc[n].ref) \in Range(out[t].anchors)

\* C21: with --limit=N, N >= 0, a run processes at most N documents, all of
\* them among the first N of the index.
C21_AtMostNProcessed ==
  (pc \notin {"idle", "killed"} /\ limitArg.given) =>
    /\ Len(processed) <= limitArg.n
    /\ Range(processed) \subseteq Range(Files(Slice(getHtmlFilesFromIndex, limitArg.n)))

\* C22: a run in --dry-run mode adds no document to the transferred set and
\* does not write transfer-state.json.
C22_DryRunKeepsResumeState ==
  [][(mode = "dry-run" /\ mode' = "dry-run" /\ pc \notin Stopped) =>
       (stateFile' = stateFile /\ state'.transferred = state.transferred)]_vars

\* C23: createOrUpdatePage logs 'Updated' or 'Created' and returns an id
\* only if the store accepted the request; a request that failed on every
\* attempt, three rate-limit responses included, logs neither and returns
\* no id.
C23_SuccessOnlyIfAccepted ==
  (pc = "couRet" /\ mode = "normal") =>
    /\ logs[Len(logs)].action \in {"Updated", "Created"} => last = "return"
    /\ ret # Null => last = "return"

\* C24: a new-attachment creation is submitted only after the query for the
\* page's attachments got a response that held no attachment with that
\* filename, never for a filename the page already has.
C24_CreateOnlyAfterEmptyQuery ==
  pc = "attCreate" => (last = "return" /\ attachments[attKey] = NoAtt)

AttachmentCalls == {"list", "attCreate", "attUpdate", "attGet"}

\* C25: within a document, an attachment request is issued only after the
\* first createOrUpdatePage call returned the id of a page of the store, and
\* the final call is made only when every reference of the document has been
\* dealt with and no upload is under way.
C25_PageBeforeUploadsBeforeFinal ==
  pc \in InFlight =>
    /\ pc \in AttachmentCalls =>
         /\ mode = "normal" /\ phase = "first"
         /\ pageId.kind = "real" /\ pageId = ret
         /\ \E t \in Titles : pages[t].id = pageId.num
         /\ k <= Len(Refs(file)) /\ Uploadable(file, k)
    /\ phase = "final" =>
         /\ pc \notin AttachmentCalls
         /\ k = Len(Refs(file)) + 1
         /\ htmlContent = Body(file, macros)
C25_Witness ==
  /\ mode = "normal" /\ pc = "update" /\ phase = "final" /\ file = "a.html"
  /\ pageId.kind = "real"
  /\ upl = << [name |-> "a.png", href |-> "images/a.png", op |-> "create"],
              [name |-> "a.png", href |-> "icons/a.png", op |-> "update"],
              [name |-> "r.pdf", href |-> "docs/r.pdf", op |-> "create"] >>

\* log actions that record a failure
FailureActions == {"Error", "Fatal error", "Missing image", "Missing file", "Upload failed"}

\* C26: every recoverable failure of a document leaves a log entry naming
\* the document and the action: a failed search, create or update of the
\* page, an upload that returned no URL, a missing local image or file.
C26_EveryFailureLogged ==
  /\ (pc = "couRet" /\ mode = "normal" /\ (~searchOk \/ last # "return")) =>
       \E m \in 1..Len(logs) : logs[m].page = title /\ logs[m].action \in FailureActions
  /\ (pc = "refs" /\ uploadedUrl = NullUrl) =>
       \E m \in 1..Len(logs) :
         /\ logs[m].page = title /\ logs[m].action \in FailureActions
         /\ \E n \in 1..Len(Refs(file)) :
              Uploadable(file, n) /\ logs[m].detail \in {Refs(file)[n], basename(Refs(file)[n])}
  /\ (pc = "refs" /\ k > 1 /\ Refs(file)[k - 1] \notin FilesOnDisk
        /\ (isImg(file, k - 1) \/ (getPageMap[Refs(file)[k - 1]] = ""
                                   /\ extname(Refs(file)[k - 1]) \in downloadableExtensions))) =>
       \E m \in 1..Len(logs) :
         /\ logs[m].page = title /\ logs[m].action \in {"Missing image", "Missing file"}
         /\ logs[m].detail = Refs(file)[k - 1]

\* C27: the filename in the attachment macro of a rewritten download link is
\* the filename under which the file is uploaded, also for a href with
\* directory components.
C27_MacroNamesUploadedFile ==
  linksVariant = "part_000" =>
    \A n \in Looped :
      out[n].kind = "attachment" =>
        \E u \in Range(uploads) : u.path = linkDoc[n].ref /\ u.name = out[n].a

\* C28: every local file a document has uploaded stays an attachment of its
\* page with its own content, also when another file of the document has
\* the same base name.
C28_EachFileItsOwnAttachment ==
  pc \in InFlight =>
    \A n \in 1..Len(upl) :
      \E a \in AttKeys : a[1] = pageId.num /\ attachments[a].content = upl[n].href

\* C29: a page whose body was written for one document of the run is never
\* written for another document, also when the two resolve to the same title.
C29_OnePagePerDocument ==
  [][\A t \in Titles :
       (pages[t].body.doc \in Range(processed) /\ pages'[t].body.doc \in FilesOnDisk) =>
         pages'[t].body.doc = pages[t].body.doc]_vars

\* C30: what a well-formed transfer-state.json lists is never removed from
\* it: every write of the file keeps the identities it held.
C30_TransferredOnlyGrows ==
  [][stateFile.kind = "ok" =>
       /\ stateFile'.kind = "ok"
       /\ Range(stateFile.transferred) \subseteq Range(stateFile'.transferred)]_vars

\* C31: the run leaves the body of a document for which it issued remote
\* calls only through the 200 ms pause at the end of the loop body: the step
\* that moves on to the next document is PauseElapses, also when the first
\* createOrUpdatePage call returned no id.
C31_PauseAfterEveryDocument ==
  [][(pc \notin Stopped \cup {"loop"} /\ pc' = "loop") => pc \in {"pause", "caught"}]_vars

\* C32: after cleanHtml every element of the output has a lower-case tag
\* name, also an element written in upper case inside another element
\* written in upper case.
C32_EveryTagLowerCase ==
  hstage = "cleaned" =>
    \A n \in Nodes(cleaned) : n.type = "tag" => n.name = toLowerCase(n.name)

\* C33: in a normal run an image whose file is absent is left untouched, and
\* an image replaced by an attachment macro names, by its bare file name, an
\* attachment that exists on the page.
C33_ImageMacroNamesAttachment ==
  (pc = "refs" /\ mode = "normal") =>
    \A n \in 1..(k - 1) :
      isImg(file, n) =>
        /\ Refs(file)[n] \notin FilesOnDisk => n \notin macros
        /\ n \in macros =>
             attachments[<< pageId.num, basename(Refs(file)[n]) >>] # NoAtt

\* C34: in safeAxiosCall a 429 on attempt i is followed by a wait of
\* 2^i * 1000 ms, any other failure that is not the last attempt by a wait of
\* 1000 ms, and every wait is followed by a further attempt.
C34_EveryWaitThenAnotherAttempt ==
  \A n \in 1..calls :
    /\ axiosCall[n] = "rate" => waits[n] = (2 ^ (n - 1)) * 1000
    /\ (axiosCall[n] = "err" /\ n < retries) => waits[n] = 1000
    /\ waits[n] > 0 => (n < calls \/ outcome = "running")

\* C35: in the output of cleanHtml an attribute whose name, in any letter
\* case, is one of the boolean attributes is written in lower case and has
\* its own name as value, whatever value it had in the input.
C35_BooleanAttributeLaw ==
  hstage = "cleaned" =>
    \A n \in Nodes(cleaned) :
      \A j \in 1..Len(n.rest) :
        (n.rest[j].lex = "attr" /\ toLowerCase(n.rest[j].name) \in booleanAttributes) =>
          /\ n.rest[j].name \in booleanAttributes
          /\ n.rest[j].value = n.rest[j].name

C35_Witness ==
  /\ hstage = "cleaned"
  /\ html = << Tag("DIV", << >>,
                 << Tag("P", << Ws, Attr("CHECKED", "") >>,
                        << Tag("SPAN", << >>, << Text("x") >>) >>) >>) >>
  /\ \E n \in Nodes(cleaned) :
       n.type = "tag" /\ n.rest = << Ws, Attr("checked", "checked") >>

\* C36: after processImagesAndLinks an element that anchor links point to
\* carries exactly one anchor macro, the one for its own id, however many
\* links of the document point to it.
C36_OneAnchorMacroPerTarget ==
  lstage = "returned" =>
    \A n \in 1..Len(linkDoc) :
      out[n].anchors # << >> => out[n].anchors = << linkDoc[n].id >>

\* C37: a run that is not killed and whose remote calls all return goes
\* through its documents and reaches the end-of-run report.
C37_RunReachesReport == (pc = "loop") ~> (pc = "done")

\* C38: the value of the API token is not written to the console: no line
\* of the output is the token, and two starts of the same copy with the same
\* settings and two different tokens write the same lines.
C38_TokenNeverPrinted ==
  /\ \A r \in started : API_TOKEN[r] # "" => API_TOKEN[r] \notin Range(console[r])
  /\ (started = Starts /\ API_TOKEN[1] # "" /\ API_TOKEN[2] # "") =>
       console[1] = console[2]

====
